---- MODULE Spec2Model ----
(***************************************************************************)
(* State-machine model of ModuleInterface (src/interface.py): the format   *)
(* resolver and manifest handling of get_track_info, and the operations    *)
(* that share the session default with it.                                 *)
(*                                                                         *)
(* Python's None is modelled by the empty sequence <<>> and a present      *)
(* value v by <<v>>, so that optional values stay comparable.              *)
(***************************************************************************)
EXTENDS Integers, Sequences, FiniteSets, TLC

VARIABLES
    available_sessions,  \* self.available_sessions (set of SessionType names)
    settings,            \* self.settings: [prefer_ac4, fix_mqa]
    session_default,     \* self.session.default
    pc,                  \* position of the running get_track_info call
    quality_tier,        \* argument quality_tier
    media_tags,          \* track_data['mediaMetadata']['tags']
    codec_options,       \* argument codec_options
    format,              \* local format ("none" is Python's None)
    session,             \* local session (SessionType chosen for the format)
    stream_data,         \* local stream_data (optional envelope)
    manifest,            \* local manifest (optional decoded JSON manifest)
    audio_track,         \* local audio_track (optional AudioTrack)
    track_codec,         \* local track_codec
    mqa_file,            \* local mqa_file (optional probe result)
    error,               \* local error (optional)
    track_info,          \* the returned TrackInfo (optional)
    requests,            \* history: get_stream_url calls of the running call
    decoded,             \* history: manifest envelopes decoded by the call
    raised,              \* the exception that left get_track_info (optional)
    ref,                 \* observer: one earlier resolution, for comparisons
    mpd_xml,             \* parse_mpd: the document given to it (optional)
    mpd_out,             \* parse_mpd: what it returned or raised (optional)
    dl_pc,               \* position of the running get_track_download call
    dl_args,             \* get_track_download: file_url, audio_track
    temp_locations,      \* get_track_download: local temp_locations
    merged_temp_location, \* get_track_download: local (optional)
    output_location,     \* get_track_download: local (optional)
    dl_result,           \* the returned TrackDownloadInfo (optional)
    files,               \* the temporary directory: path -> content
    next_temp,           \* names create_temp_filename has handed out
    fetched,             \* history: URLs fetched by the running download
    printed,             \* history: messages printed by the running download
    resolutions,         \* get_track_info calls side by side: id -> locals
    previews,            \* get_preview_stream_url calls: id -> locals
    written,             \* observer: [path, op] a running call wrote or removed
    login_pc,            \* position in the login loop of __init__
    disable_subscription_check, \* orpheus_options.disable_subscription_check
    saved_sessions,      \* local saved_sessions: session type -> storage
    stored_sessions,     \* temporary settings 'sessions' (optional)
    sessions,            \* local sessions: session type -> session object
    login_session,       \* local login_session (optional)
    login_index,         \* position of the for loop in available_sessions
    rounds               \* number of iterations of the login loop started

vars == <<available_sessions, settings, session_default, pc, quality_tier,
          media_tags, codec_options, format, session, stream_data, manifest,
          audio_track, track_codec, mqa_file, error, track_info, requests,
          decoded, raised, ref, mpd_xml, mpd_out, dl_pc, dl_args,
          temp_locations, merged_temp_location, output_location, dl_result,
          files, next_temp, fetched, printed,
          resolutions,
          previews, written,
          login_pc, disable_subscription_check, saved_sessions,
          stored_sessions, sessions, login_session, login_index, rounds>>

locals == <<quality_tier, media_tags, codec_options, format, session,
            stream_data, manifest, audio_track, track_codec, mqa_file,
            error, track_info, requests, decoded, raised>>

deployment == <<available_sessions, settings>>

\* get_track_info calls that run side by side
resolution_vars == <<resolutions>>

\* get_preview_stream_url calls and what they did to the temporary directory
preview_vars == <<previews, written>>

\* the login loop of __init__
login_vars == <<login_pc, disable_subscription_check, saved_sessions,
                stored_sessions, sessions, login_session, login_index, rounds>>

\* the locals of get_track_download
download_locals == <<dl_pc, dl_args, temp_locations, merged_temp_location,
                     output_location, dl_result, fetched, printed>>

\* the state of parse_mpd and of get_track_download
parse_vars == <<mpd_xml, mpd_out>>

download_vars == <<dl_pc, dl_args, temp_locations, merged_temp_location,
                   output_location, dl_result, files, next_temp, fetched,
                   printed>>

\* the state of get_track_info and get_artist_info
info_vars == <<deployment, session_default, pc, locals, ref>>

----------------------------------------------------------------------------
(* Enumerations and static tables *)

SessionTypes == {"TV", "MOBILE_DEFAULT", "MOBILE_ATMOS"}

QualityEnum == {"MINIMUM", "LOW", "MEDIUM", "HIGH", "LOSSLESS", "HIFI"}

quality_parse ==
    [MINIMUM |-> "LOW", LOW |-> "LOW", MEDIUM |-> "HIGH", HIGH |-> "HIGH",
     LOSSLESS |-> "LOSSLESS", HIFI |-> "HI_RES"]

MediaTags == {"SONY_360RA", "DOLBY_ATMOS", "HIRES_LOSSLESS"}

CodecOptionsSet == [spatial_codecs : BOOLEAN, proprietary_codecs : BOOLEAN]

\* codec_data of utils.models for the codecs the backend serves
codec_data ==
    [FLAC |-> [spatial |-> FALSE, proprietary |-> FALSE],
     AAC  |-> [spatial |-> FALSE, proprietary |-> FALSE],
     MQA  |-> [spatial |-> FALSE, proprietary |-> TRUE],
     EAC3 |-> [spatial |-> TRUE,  proprietary |-> TRUE]]

\* the session table of get_track_info
FormatSession ==
    [flac_hires |-> "MOBILE_DEFAULT", 360ra |-> "MOBILE_DEFAULT",
     ac4 |-> "MOBILE_ATMOS", ac3 |-> "TV", none |-> "TV"]

\* the fallback bitrate table of get_track_info (kbit/s, <<>> is None)
FallbackBitrate ==
    [LOW |-> <<96>>, HIGH |-> <<320>>, LOSSLESS |-> <<1411>>,
     HI_RES |-> <<>>, HI_RES_LOSSLESS |-> <<>>]

----------------------------------------------------------------------------
(* The backend's answers to get_stream_url *)

\* codecs strings a manifest can carry
CodecStrings == {"flac", "mqa", "eac3", "mp4a.40.2"}

MimeTypes == {"application/dash+xml", "application/vnd.tidal.bts"}

\* audioQuality / audioMode values the modelled backend answers with
AudioQualities == {"LOSSLESS", "HI_RES_LOSSLESS"}

AudioModes == {"STEREO", "DOLBY_ATMOS"}

\* The n-th request of a call is answered with its own manifest: the URLs,
\* bandwidth and sampling rate of the payload are those of answer n.
Envelopes(n) ==
    [manifestMimeType : MimeTypes, audioQuality : AudioQualities,
     audioMode : AudioModes, codecs : CodecStrings, serial : {n}]

\* TidalRequestError raised by get_stream_url
RequestErrors == {[raises |-> "Asset is not ready for playback"],
                  [raises |-> "other"]}

\* an error that is not the region lock
RejectedRequest == [raises |-> "other"]

Sampling(n) == IF n = 1 THEN 96000 ELSE 44100

Bandwidth(n) == IF n = 1 THEN 2304000 ELSE 1411200

\* results MqaIdentifier can give for a probed header
ProbeResults == {[is_mqa |-> FALSE, bit_depth |-> 16, original_sample_rate |-> 441],
                 [is_mqa |-> TRUE, bit_depth |-> 24, original_sample_rate |-> 960]}

----------------------------------------------------------------------------
(* parse_mpd: the MPD document is a tree of periods, adaptation sets and   *)
(* representations; an absent XML attribute is <<>>.                       *)

RECURSIVE ConcatAll(_)
ConcatAll(ss) == IF ss = <<>> THEN <<>> ELSE Head(ss) \o ConcatAll(Tail(ss))

\* codec = rep.get('codecs').upper(); MP4A* becomes AAC; CodecEnum[codec]
MpdCodec(codecs) ==
    CASE codecs = "mp4a.40.2" -> "AAC"
      [] codecs = "flac" -> "FLAC"
      [] codecs = "mqa" -> "MQA"
      [] codecs = "eac3" -> "EAC3"

\* variant of SegTimeList that takes r as the number of segments of an entry
RECURSIVE SegTimeListRepeatOnly(_, _)
SegTimeListRepeatOnly(entries, cur_time) ==
    IF entries = <<>> THEN <<>>
    ELSE LET s == Head(entries)
             start == IF s.t # <<>> THEN s.t[1] ELSE cur_time
             count == IF s.r # <<>> /\ s.r[1] > 0 THEN s.r[1] ELSE 1
         IN  [i \in 1..count |-> start + (i - 1) * s.d]
             \o SegTimeListRepeatOnly(Tail(entries), start + count * s.d)

\* the start times of the segments of a SegmentTimeline, from cur_time on
RECURSIVE SegTimeList(_, _)
SegTimeList(entries, cur_time) ==
    IF entries = <<>> THEN <<>>
    ELSE LET s == Head(entries)
             start == IF s.t # <<>> THEN s.t[1] ELSE cur_time
             count == (IF s.r # <<>> THEN s.r[1] ELSE 0) + 1
         IN  [i \in 1..count |-> start + (i - 1) * s.d]
             \o SegTimeList(Tail(entries), start + count * s.d)

\* media.replace('$Number$', str(n)): a URL template is a sequence of parts,
\* a literal [lit |-> ..], a number [num |-> ..] or the placeholder
\* [var |-> "Number"]
ReplaceNumber(media, n) ==
    [i \in DOMAIN media |->
        IF media[i] = [var |-> "Number"] THEN [num |-> n] ELSE media[i]]

\* variant of TrackUrls that numbers the segments from 1 whatever startNumber
TrackUrlsFromOne(seg_template) ==
    LET seg_time_list == IF seg_template.timeline # <<>>
                         THEN SegTimeList(seg_template.timeline[1], 0)
                         ELSE <<>>
    IN  <<seg_template.initialization>>
        \o [i \in 1..Len(seg_time_list) |-> ReplaceNumber(seg_template.media, i)]

\* the URL list of one representation: init URL, then one URL per segment
TrackUrls(seg_template) ==
    LET start_number == IF seg_template.startNumber # <<>>
                        THEN seg_template.startNumber[1] ELSE 1
        seg_time_list == IF seg_template.timeline # <<>>
                         THEN SegTimeList(seg_template.timeline[1], 0)
                         ELSE <<>>
    IN  <<seg_template.initialization>>
        \o [i \in 1..Len(seg_time_list) |->
               ReplaceNumber(seg_template.media, start_number + i - 1)]

MpdTrack(rep) ==
    [codec |-> MpdCodec(rep.codecs),
     sample_rate |-> IF rep.audioSamplingRate # <<>> THEN rep.audioSamplingRate[1] ELSE 0,
     bitrate |-> IF rep.bandwidth # <<>> THEN rep.bandwidth[1] ELSE 0,
     urls |-> TrackUrls(rep.template)]

\* all representations in document order, each with its set's contentType
MpdRepresentations(xml) ==
    ConcatAll([p \in DOMAIN xml.periods |->
        ConcatAll([a \in DOMAIN xml.periods[p].adaptation_sets |->
            LET aset == xml.periods[p].adaptation_sets[a]
            IN  [r \in DOMAIN aset.representations |->
                    [contentType |-> aset.contentType,
                     rep |-> aset.representations[r]]]])])

\* variant of parse_mpd that looks at the content type of the first
\* representation only
parse_mpd_first_only(xml) ==
    LET reps == MpdRepresentations(xml)
    IN  IF reps # <<>> /\ reps[1].contentType # "audio"
        THEN [raises |-> TRUE, tracks |-> <<>>]
        ELSE [raises |-> FALSE, tracks |-> [i \in DOMAIN reps |-> MpdTrack(reps[i].rep)]]

\* parse_mpd: raises ValueError on a non-audio representation, else the
\* list of AudioTracks
parse_mpd(xml) ==
    LET reps == MpdRepresentations(xml)
    IN  IF \E i \in DOMAIN reps : reps[i].contentType # "audio"
        THEN [raises |-> TRUE, tracks |-> <<>>]
        ELSE [raises |-> FALSE, tracks |-> [i \in DOMAIN reps |-> MpdTrack(reps[i].rep)]]

\* base64.b64decode of the manifest of a segmented envelope
MpdDocument(env) ==
    [periods |-> <<[adaptation_sets |-> <<
        [contentType |-> "audio",
         representations |-> <<
            [codecs |-> env.codecs,
             audioSamplingRate |-> <<Sampling(env.serial)>>,
             bandwidth |-> <<Bandwidth(env.serial)>>,
             template |-> [initialization |-> <<[num |-> env.serial], [lit |-> "init"]>>,
                           media |-> <<[num |-> env.serial], [var |-> "Number"]>>,
                           startNumber |-> <<1>>,
                           timeline |-> << <<[t |-> <<0>>, d |-> 1000, r |-> <<2>>]>> >>]]
         >>] >>] >>]

\* json.loads(base64.b64decode(...)) of the manifest of a direct envelope
JsonManifest(env) ==
    [codecs |-> env.codecs, urls |-> <<[file |-> env.serial]>>]

\* CodecEnum['AAC' if 'mp4a' in manifest['codecs'] else manifest['codecs'].upper()]
JsonCodec(codecs) ==
    CASE codecs = "mp4a.40.2" -> "AAC"
      [] codecs = "flac" -> "FLAC"
      [] codecs = "mqa" -> "MQA"
      [] codecs = "eac3" -> "EAC3"

----------------------------------------------------------------------------
(* The decisions of get_track_info *)

\* variant of SpatialFormat that looks at the Atmos tag first
SpatialFormatAtmosFirst(tags, prefer_ac4) ==
    IF "DOLBY_ATMOS" \in tags
    THEN (IF prefer_ac4 THEN "ac4" ELSE "ac3")
    ELSE IF "SONY_360RA" \in tags THEN "360ra" ELSE "none"

\* the spatial branch: 360RA is looked at before Atmos
SpatialFormat(tags, prefer_ac4) ==
    IF "SONY_360RA" \in tags THEN "360ra"
    ELSE IF "DOLBY_ATMOS" \in tags
         THEN (IF prefer_ac4 THEN "ac4" ELSE "ac3")
         ELSE "none"

\* variant of SelectFormat without the tier condition of the hi-res format
SelectFormatAnyTier(tier, tags, options, prefer_ac4) ==
    LET spatial == IF options.spatial_codecs
                   THEN SpatialFormat(tags, prefer_ac4) ELSE "none"
    IN  IF "HIRES_LOSSLESS" \in tags /\ spatial = "none"
        THEN "flac_hires" ELSE spatial

\* format before the session check
SelectFormat(tier, tags, options, prefer_ac4) ==
    LET spatial == IF options.spatial_codecs
                   THEN SpatialFormat(tags, prefer_ac4) ELSE "none"
    IN  IF "HIRES_LOSSLESS" \in tags /\ spatial = "none" /\ tier = "HIFI"
        THEN "flac_hires" ELSE spatial

\* variant of SelectSession that sends every hi-res tagged track to mobile
SelectSessionHiresMobile(fmt, tags) ==
    IF (fmt = "none" /\ "DOLBY_ATMOS" \in tags) \/ "HIRES_LOSSLESS" \in tags
    THEN "MOBILE_DEFAULT" ELSE FormatSession[fmt]

\* the session of the format; a direct request for an Atmos track avoids TV
SelectSession(fmt, tags) ==
    IF fmt = "none" /\ "DOLBY_ATMOS" \in tags
    THEN "MOBILE_DEFAULT" ELSE FormatSession[fmt]

\* variant of SessionAvailable that knows the TV session only
SessionAvailableTvOnly(s, available) == s = "TV" /\ s \in available

\* session.name in self.available_sessions
SessionAvailable(s, available) == s \in available

\* variant of RequestQuality that decides by the tier instead of the format
RequestQualityByTier(fmt, tier) ==
    IF tier # "HIFI" THEN quality_parse[tier] ELSE "HI_RES_LOSSLESS"

\* the quality string of the first get_stream_url
RequestQuality(fmt, tier) ==
    IF fmt # "flac_hires" THEN quality_parse[tier] ELSE "HI_RES_LOSSLESS"

\* variant of NeedsFallback without the spatial test
NeedsFallbackSpatialToo(codec, options) ==
    /\ ~options.proprietary_codecs
    /\ codec_data[codec].proprietary

\* the condition of the proprietary-codec re-fetch
NeedsFallback(codec, options) ==
    /\ ~codec_data[codec].spatial
    /\ ~options.proprietary_codecs
    /\ codec_data[codec].proprietary

\* decoding of one envelope: the locals manifest, audio_track, track_codec.
\* A segmented envelope leaves manifest raw and sets audio_track; a direct
\* one sets manifest and leaves audio_track as it was.
DecodeEnvelope(env, old_manifest, old_audio_track) ==
    IF env.manifestMimeType = "application/dash+xml"
    THEN LET track == parse_mpd(MpdDocument(env)).tracks[1]
         IN  [manifest |-> old_manifest, audio_track |-> <<track>>,
              track_codec |-> track.codec]
    ELSE LET m == JsonManifest(env)
         IN  [manifest |-> <<m>>, audio_track |-> old_audio_track,
              track_codec |-> JsonCodec(m.codecs)]

\* variant of ProbeRuns that does not consult the fix_mqa setting
ProbeRunsWithoutSetting(sd, at, codec, fix_mqa) ==
    sd # <<>> /\ at = <<>> /\ codec = "MQA"

\* the MQA probe runs for a direct MQA stream when fix_mqa is set
ProbeRuns(sd, at, codec, fix_mqa) ==
    sd # <<>> /\ at = <<>> /\ codec = "MQA" /\ fix_mqa

\* download_args
DownloadArgs(sd, man, at, codec) ==
    IF sd = <<>> THEN <<>>
    ELSE IF at # <<>>
         THEN <<[audio_track |-> at[1]]>>
         ELSE <<[file_url |-> man[1].urls[1], codec |-> codec]>>

BitDepth(sd, codec, mqa) ==
    IF mqa # <<>> /\ mqa[1].is_mqa THEN <<mqa[1].bit_depth>>
    ELSE IF codec \in {"FLAC", "ALAC"}
         THEN (IF sd # <<>> /\ sd[1].audioQuality = "HI_RES_LOSSLESS"
               THEN <<24>> ELSE <<16>>)
         ELSE <<>>

\* sample rate in units of 0.1 kHz (44.1 kHz is 441)
SampleRate(sd, at, codec, mqa) ==
    IF mqa # <<>> /\ mqa[1].is_mqa THEN mqa[1].original_sample_rate
    ELSE IF at # <<>> /\ sd[1].audioQuality = "HI_RES_LOSSLESS"
         THEN at[1].sample_rate \div 100
         ELSE IF codec \in {"EAC3", "MHA1", "AC4"} THEN 480 ELSE 441

Bitrate(sd, at, codec) ==
    IF at # <<>> THEN <<at[1].bitrate \div 1000>>
    ELSE IF sd = <<>> THEN <<>>
    ELSE IF sd[1].audioMode = "DOLBY_ATMOS" /\ codec = "EAC3" THEN <<768>>
    ELSE IF sd[1].audioMode = "DOLBY_ATMOS" /\ codec = "AC4" THEN <<256>>
    ELSE IF sd[1].audioMode = "SONY_360RA" THEN <<667>>
    ELSE FallbackBitrate[sd[1].audioQuality]

\* the TrackInfo built at the end of get_track_info
TrackInfo(sd, man, at, codec, mqa, err) ==
    [codec |-> codec,
     bit_depth |-> BitDepth(sd, codec, mqa),
     sample_rate |-> SampleRate(sd, at, codec, mqa),
     bitrate |-> Bitrate(sd, at, codec),
     download_extra_kwargs |-> DownloadArgs(sd, man, at, codec),
     error |-> err]

----------------------------------------------------------------------------
(* State *)

\* TidalApi starts with the TV session as its default
InitialDefault == "TV"

NoOptions == [spatial_codecs |-> FALSE, proprietary_codecs |-> FALSE]

\* the locals of get_track_info when no call is running
NoCall ==
    /\ quality_tier = "none"
    /\ media_tags = {}
    /\ codec_options = NoOptions
    /\ format = "none"
    /\ session = "TV"
    /\ stream_data = <<>>
    /\ manifest = <<>>
    /\ audio_track = <<>>
    /\ track_codec = "FLAC"
    /\ mqa_file = <<>>
    /\ error = <<>>
    /\ track_info = <<>>
    /\ requests = <<>>
    /\ decoded = <<>>
    /\ raised = <<>>

\* no parse_mpd call has been made
NoParse ==
    /\ mpd_xml = <<>>
    /\ mpd_out = <<>>

NoArgs == [file_url |-> <<>>, audio_track |-> <<>>]

\* no get_track_download call is running and the temporary directory is empty
NoDownload ==
    /\ dl_pc = "idle"
    /\ dl_args = NoArgs
    /\ temp_locations = <<>>
    /\ merged_temp_location = <<>>
    /\ output_location = <<>>
    /\ dl_result = <<>>
    /\ files = {}
    /\ next_temp = 0
    /\ fetched = <<>>
    /\ printed = <<>>

MaxResolutions == 2

ResolutionIds == 1..MaxResolutions

\* a get_track_info call that has not been entered
IdleResolution ==
    [pc |-> "idle", session |-> "TV", codec_options |-> NoOptions,
     requests |-> <<>>]

NoResolutions == resolutions = [r \in ResolutionIds |-> IdleResolution]

MaxPreviews == 2

PreviewIds == 1..MaxPreviews

\* a get_preview_stream_url call that has not been entered
IdlePreview ==
    [pc |-> "idle", track_id |-> <<>>, urls |-> <<>>, num_media |-> 0,
     empty |-> FALSE, segment_paths |-> <<>>, preview_path |-> <<>>,
     result |-> <<>>]

NoPreviews ==
    /\ previews = [p \in PreviewIds |-> IdlePreview]
    /\ written = {}

\* a dict without keys
EmptyMap == [t \in {} |-> <<>>]

\* session.get_storage() of a session authorised in the n-th iteration
Storage(t, n) == [type |-> t, round |-> n, refreshed |-> FALSE]

\* __init__ has returned: the locals of the login loop are gone, the
\* temporary settings hold a session for every available session type
NoLogin ==
    /\ login_pc = "constructed"
    /\ disable_subscription_check = FALSE
    /\ saved_sessions = EmptyMap
    /\ stored_sessions = <<[t \in available_sessions |-> Storage(t, 0)]>>
    /\ sessions = EmptyMap
    /\ login_session = <<>>
    /\ login_index = 0
    /\ rounds = 0

\* ModuleInterface.__init__: enable_mobile decides the available sessions
Init ==
    /\ available_sessions \in {{"TV"}, {"TV", "MOBILE_DEFAULT", "MOBILE_ATMOS"}}
    /\ settings \in [prefer_ac4 : BOOLEAN, fix_mqa : BOOLEAN]
    /\ session_default = InitialDefault
    /\ pc = "idle"
    /\ NoCall
    /\ ref = {}
    /\ NoParse
    /\ NoDownload
    /\ NoResolutions
    /\ NoPreviews
    /\ NoLogin

----------------------------------------------------------------------------
(* get_track_info, one action per backend round trip *)

\* from entry to the first get_stream_url: format, session, default, request
Begin(tier, tags, options) ==
    /\ pc = "idle"
    /\ LET selected == SelectFormat(tier, tags, options, settings.prefer_ac4)
           s == SelectSession(selected, tags)
           ok == SessionAvailable(s, available_sessions)
           fmt == IF ok THEN selected ELSE "none"
           dflt == IF ok THEN s ELSE session_default
       IN  /\ quality_tier' = tier
           /\ media_tags' = tags
           /\ codec_options' = options
           /\ format' = fmt
           /\ session' = s
           /\ session_default' = dflt
           /\ requests' = <<[session |-> dflt, quality |-> RequestQuality(fmt, tier)]>>
    /\ pc' = "requested"
    /\ UNCHANGED <<deployment, stream_data, manifest, audio_track, track_codec,
                   mqa_file, error, track_info, decoded, raised, ref>>
    /\ UNCHANGED <<parse_vars, download_vars, resolution_vars, preview_vars,
                   login_vars>>

\* error = the region annotation, or the error itself
ErrorAnnotation(resp) ==
    IF resp.raises = "Asset is not ready for playback"
    THEN "is not available in your region" ELSE resp.raises

\* the end of the call: probe, download_args and the TrackInfo
Finish(sd, man, at, codec, err) ==
    \E probe \in IF ProbeRuns(sd, at, codec, settings.fix_mqa)
                 THEN ProbeResults ELSE {[is_mqa |-> FALSE]} :
       LET mqa == IF ProbeRuns(sd, at, codec, settings.fix_mqa)
                  THEN <<[url |-> man[1].urls[1], is_mqa |-> probe.is_mqa,
                          bit_depth |-> probe.bit_depth,
                          original_sample_rate |-> probe.original_sample_rate]>>
                  ELSE <<>>
       IN  /\ stream_data' = sd
           /\ manifest' = man
           /\ audio_track' = at
           /\ track_codec' = codec
           /\ error' = err
           /\ mqa_file' = mqa
           /\ track_info' = <<TrackInfo(sd, man, at, codec, mqa, err)>>
           /\ pc' = "done"

\* the answer to the first get_stream_url
Respond1(resp) ==
    /\ pc = "requested"
    /\ IF resp \in RequestErrors
       THEN /\ Finish(<<>>, manifest, audio_track, track_codec,
                      <<ErrorAnnotation(resp)>>)
            /\ UNCHANGED <<requests, decoded>>
       ELSE LET dec == DecodeEnvelope(resp, manifest, audio_track)
            IN  /\ decoded' = Append(decoded, [serial |-> resp.serial,
                                               codec |-> dec.track_codec])
                /\ IF NeedsFallback(dec.track_codec, codec_options)
                   THEN /\ requests' = Append(requests,
                               [session |-> session_default, quality |-> "LOSSLESS"])
                        /\ stream_data' = <<resp>>
                        /\ manifest' = dec.manifest
                        /\ audio_track' = dec.audio_track
                        /\ track_codec' = dec.track_codec
                        /\ pc' = "refetch"
                        /\ UNCHANGED <<mqa_file, error, track_info>>
                   ELSE /\ Finish(<<resp>>, dec.manifest, dec.audio_track,
                                  dec.track_codec, error)
                        /\ UNCHANGED requests
    /\ UNCHANGED <<deployment, session_default, quality_tier, media_tags,
                   codec_options, format, session, raised, ref>>
    /\ UNCHANGED <<parse_vars, download_vars, resolution_vars, preview_vars,
                   login_vars>>

\* the answer to the re-fetch at 'LOSSLESS'; an error is not caught there
Respond2(resp) ==
    /\ pc = "refetch"
    /\ IF resp \in RequestErrors
       THEN /\ pc' = "raised"
            /\ raised' = <<resp.raises>>
            /\ UNCHANGED <<stream_data, manifest, audio_track, track_codec,
                           mqa_file, error, track_info, decoded>>
       ELSE LET dec == DecodeEnvelope(resp, manifest, audio_track)
            IN  /\ decoded' = Append(decoded, [serial |-> resp.serial,
                                               codec |-> dec.track_codec])
                /\ Finish(<<resp>>, dec.manifest, dec.audio_track,
                          dec.track_codec, error)
                /\ UNCHANGED raised
    /\ UNCHANGED <<deployment, session_default, quality_tier, media_tags,
                   codec_options, format, session, requests, ref>>
    /\ UNCHANGED <<parse_vars, download_vars, resolution_vars, preview_vars,
                   login_vars>>

\* what the observer keeps of a resolution
Resolution ==
    [quality_tier |-> quality_tier, media_tags |-> media_tags,
     codec_options |-> codec_options, format |-> format,
     session |-> requests[1].session, quality |-> requests[1].quality]

\* get_track_info returns (or raises); the observer may keep the resolution
Return(observe) ==
    /\ pc \in {"done", "raised"}
    /\ pc' = "idle"
    /\ quality_tier' = "none"
    /\ media_tags' = {}
    /\ codec_options' = NoOptions
    /\ format' = "none"
    /\ session' = "TV"
    /\ stream_data' = <<>>
    /\ manifest' = <<>>
    /\ audio_track' = <<>>
    /\ track_codec' = "FLAC"
    /\ mqa_file' = <<>>
    /\ error' = <<>>
    /\ track_info' = <<>>
    /\ requests' = <<>>
    /\ decoded' = <<>>
    /\ raised' = <<>>
    /\ ref' = IF observe /\ ref = {} THEN {Resolution} ELSE ref
    /\ UNCHANGED <<deployment, session_default>>
    /\ UNCHANGED <<parse_vars, download_vars, resolution_vars, preview_vars,
                   login_vars>>

----------------------------------------------------------------------------
(* get_artist_info *)

ArtistOutcomes == {"artist_request_fails", "page_request_fails",
                   "no_paged_list", "paged_list"}

\* variant of CreditedLookup that does not ask for the mobile session
CreditedLookupUnchecked(get_credited_albums, available) ==
    get_credited_albums

\* the credited-albums lookup is made on the mobile session
CreditedLookup(get_credited_albums, available) ==
    get_credited_albums /\ "MOBILE_DEFAULT" \in available

GetArtistInfo(get_credited_albums, outcome) ==
    /\ pc = "idle"
    /\ session_default' =
          IF outcome # "artist_request_fails"
             /\ CreditedLookup(get_credited_albums, available_sessions)
          THEN (IF outcome = "paged_list" THEN "TV" ELSE "MOBILE_DEFAULT")
          ELSE session_default
    /\ UNCHANGED <<deployment, pc, locals, ref>>
    /\ UNCHANGED <<parse_vars, download_vars, resolution_vars, preview_vars,
                   login_vars>>

----------------------------------------------------------------------------
(* Specifications *)

Next ==
    \/ \E tier \in QualityEnum, tags \in SUBSET MediaTags, options \in CodecOptionsSet :
          Begin(tier, tags, options)
    \/ \E resp \in RequestErrors \cup Envelopes(1) :
          Respond1(resp)
    \/ \E resp \in RequestErrors \cup Envelopes(2) :
          Respond2(resp)
    \/ Return(FALSE)
    \/ \E g \in BOOLEAN, outcome \in ArtistOutcomes : GetArtistInfo(g, outcome)

Spec == Init /\ [][Next]_vars

\* Two resolutions side by side: the observer keeps one resolution and every
\* later one is compared with it. The backend rejects the manifest requests,
\* what is compared is decided before the first answer.
NextPair ==
    \/ \E tier \in QualityEnum, tags \in SUBSET MediaTags, options \in CodecOptionsSet :
          Begin(tier, tags, options)
    \/ \E resp \in {RejectedRequest} : Respond1(resp)
    \/ \E observe \in BOOLEAN : Return(observe)
    \/ \E g \in BOOLEAN, outcome \in ArtistOutcomes : GetArtistInfo(g, outcome)

\* fix_mqa is read after the first answer only; it keeps its default here
InitPair == Init /\ settings.fix_mqa

SpecPair == InitPair /\ [][NextPair]_vars

----------------------------------------------------------------------------
(* parse_mpd on its own: the documents it is given *)

MaxEntries == 2

MaxRepeat == 2

MaxSets == 2

SeqsUpTo(S, n) == UNION {[1..k -> S] : k \in 0..n}

\* the S elements of a SegmentTimeline
TimelineEntries ==
    [t : {<<>>, <<0>>, <<7000>>}, d : {1000},
     r : {<<>>} \cup {<<k>> : k \in 0..MaxRepeat}]

SegmentTemplates ==
    [initialization : {<<[lit |-> "init.mp4"]>>},
     media : {<<[lit |-> "seg-"], [var |-> "Number"], [lit |-> ".mp4"]>>},
     startNumber : {<<>>, <<0>>, <<1>>, <<5>>},
     timeline : {<<>>} \cup {<<e>> : e \in SeqsUpTo(TimelineEntries, MaxEntries)}]

Representations ==
    [codecs : {"flac"}, audioSamplingRate : {<<>>, <<44100>>},
     bandwidth : {<<1411200>>}, template : SegmentTemplates]

\* a representation without SegmentTimeline
PlainRepresentation ==
    [codecs |-> "mp4a.40.2", audioSamplingRate |-> <<44100>>, bandwidth |-> <<>>,
     template |-> [initialization |-> <<[lit |-> "init.mp4"]>>,
                   media |-> <<[lit |-> "seg-"], [var |-> "Number"], [lit |-> ".mp4"]>>,
                   startNumber |-> <<>>, timeline |-> <<>>]]

PlainSets ==
    [contentType : {"audio", "video"},
     representations : SeqsUpTo({PlainRepresentation}, 2)]

\* documents with no period, with up to MaxSets plain adaptation sets, or
\* with one audio adaptation set of one representation of any shape
MpdDocuments ==
    {[periods |-> <<>>]}
    \cup {[periods |-> <<[adaptation_sets |-> sets]>>] :
             sets \in SeqsUpTo(PlainSets, MaxSets)}
    \cup {[periods |-> <<[adaptation_sets |->
                 <<[contentType |-> "audio", representations |-> <<r>>]>>]>>] :
             r \in Representations}

\* parse_mpd is static: the instance is as constructed with default settings
InitMpd ==
    /\ available_sessions = {"TV", "MOBILE_DEFAULT", "MOBILE_ATMOS"}
    /\ settings = [prefer_ac4 |-> FALSE, fix_mqa |-> TRUE]
    /\ session_default = InitialDefault
    /\ pc = "idle"
    /\ NoCall
    /\ ref = {}
    /\ mpd_xml \in {<<xml>> : xml \in MpdDocuments}
    /\ mpd_out = <<>>
    /\ NoDownload
    /\ NoResolutions
    /\ NoPreviews
    /\ NoLogin

ParseMpd ==
    /\ mpd_xml # <<>>
    /\ mpd_out = <<>>
    /\ mpd_out' = <<parse_mpd(mpd_xml[1])>>
    /\ UNCHANGED <<mpd_xml, info_vars, download_vars, resolution_vars, preview_vars,
                   login_vars>>

NextMpd == ParseMpd

SpecMpd == InitMpd /\ [][NextMpd]_vars

----------------------------------------------------------------------------
(* get_track_download: the temporary directory is the set files of        *)
(* [path, content]; a temporary name is fresh, numbered by next_temp.     *)

MaxSegments == 3

MaxTempFiles == 6

\* the container of codec_data for the codecs of a segmented rendition
ContainerName == [FLAC |-> "flac", AAC |-> "m4a"]

SegmentUrls ==
    {<<[lit |-> "init.mp4"]>>, <<[lit |-> "seg-"], [num |-> 1], [lit |-> ".mp4"]>>}

\* the AudioTracks a call is made with
DownloadTracks ==
    [codec : {"FLAC", "AAC"}, sample_rate : {44100}, bitrate : {0},
     urls : UNION {[1..k -> SegmentUrls] : k \in 1..MaxSegments}]

\* the keyword arguments of a call: a file_url or an audio_track
DownloadArgsSet ==
    {[file_url |-> <<[file |-> 1]>>, audio_track |-> <<>>]}
    \cup {[file_url |-> <<>>, audio_track |-> <<t>>] : t \in DownloadTracks}

\* create_temp_filename() + '.' + extension
TempName(n, extension) == [id |-> n, ext |-> extension]

\* the bytes a server sends for a URL
SegmentBytes(url) == <<[bytes_of |-> url]>>

Removed(fs, paths) == {f \in fs : f.path \notin paths}

ContentOf(fs, path) == (CHOOSE f \in fs : f.path = path).content

\* variant of MergedContent that writes the segments last to first
RECURSIVE MergedContentReversed(_, _)
MergedContentReversed(fs, locations) ==
    IF locations = <<>> THEN <<>>
    ELSE MergedContentReversed(fs, Tail(locations)) \o ContentOf(fs, Head(locations))

\* copyfileobj of every temp_location into the merged file, in list order
RECURSIVE MergedContent(_, _)
MergedContent(fs, locations) ==
    IF locations = <<>> THEN <<>>
    ELSE ContentOf(fs, Head(locations)) \o MergedContent(fs, Tail(locations))

\* variant of AfterRemux that leaves the segment files in place
AfterRemuxKeepSegments(fs, merged, temps, output) ==
    Removed(fs, {merged})
        \cup {[path |-> output, content |-> <<[remuxed |-> ContentOf(fs, merged)]>>]}

\* a successful remux: the output file exists, the merged file and every
\* segment file are removed
AfterRemux(fs, merged, temps, output) ==
    Removed(fs, {merged} \cup {temps[i] : i \in DOMAIN temps})
        \cup {[path |-> output, content |-> <<[remuxed |-> ContentOf(fs, merged)]>>]}

\* variant of RemuxFailureResult that returns the path of the output file
RemuxFailureResultOutput(merged, output) ==
    [download_type |-> "TEMP_FILE_PATH", temp_file_path |-> output]

\* the TrackDownloadInfo of the except branch
RemuxFailureResult(merged, output) ==
    [download_type |-> "TEMP_FILE_PATH", temp_file_path |-> merged]

\* variant of AfterFailedRemux that removes the segment files
AfterFailedRemuxCleansSegments(fs, temps, output, outcome) ==
    Removed(fs, {temps[i] : i \in DOMAIN temps})
        \cup (IF outcome = "failed_partial"
              THEN {[path |-> output, content |-> <<>>]} ELSE {})

\* the except branch removes nothing; a remux that failed on its way may
\* have left part of the output
AfterFailedRemux(fs, temps, output, outcome) ==
    IF outcome = "failed_partial"
    THEN fs \cup {[path |-> output, content |-> <<>>]}
    ELSE fs

\* the outcomes of the external remux: done, not runnable or failed without
\* output, failed after writing part of the output
RemuxOutcomes == {"ok", "failed", "failed_partial"}

InitDownload ==
    /\ available_sessions = {"TV", "MOBILE_DEFAULT", "MOBILE_ATMOS"}
    /\ settings = [prefer_ac4 |-> FALSE, fix_mqa |-> TRUE]
    /\ session_default = InitialDefault
    /\ pc = "idle"
    /\ NoCall
    /\ ref = {}
    /\ NoParse
    /\ NoDownload
    /\ NoResolutions
    /\ NoPreviews
    /\ NoLogin

\* entry: a file_url is returned as it is, else the segment loop starts
DlBegin(args) ==
    /\ dl_pc = "idle"
    /\ args.audio_track # <<>> =>
          next_temp + Len(args.audio_track[1].urls) + 2 <= MaxTempFiles
    /\ dl_args' = args
    /\ fetched' = <<>>
    /\ printed' = <<>>
    /\ IF args.file_url # <<>>
       THEN /\ dl_result' = <<[download_type |-> "URL", file_url |-> args.file_url[1]]>>
            /\ dl_pc' = "done"
       ELSE /\ dl_result' = <<>>
            /\ dl_pc' = "fetching"
    /\ UNCHANGED <<temp_locations, merged_temp_location, output_location, files,
                   next_temp, info_vars, parse_vars, resolution_vars,
                   preview_vars, login_vars>>

\* one turn of the segment loop: download_to_temp of the next URL, which
\* may raise
DlFetch(ok) ==
    /\ dl_pc = "fetching"
    /\ Len(temp_locations) < Len(dl_args.audio_track[1].urls)
    /\ LET download_url == dl_args.audio_track[1].urls[Len(temp_locations) + 1]
           temp_location == TempName(next_temp, "mp4")
       IN  /\ fetched' = Append(fetched, download_url)
           /\ IF ok
              THEN /\ temp_locations' = Append(temp_locations, temp_location)
                   /\ files' = files \cup {[path |-> temp_location,
                                            content |-> SegmentBytes(download_url)]}
                   /\ next_temp' = next_temp + 1
                   /\ dl_pc' = "fetching"
              ELSE /\ dl_pc' = "raised"
                   /\ UNCHANGED <<temp_locations, files, next_temp>>
    /\ UNCHANGED <<dl_args, merged_temp_location, output_location, dl_result,
                   printed, info_vars, parse_vars, resolution_vars,
                   preview_vars, login_vars>>

\* the two temporary names and the merge of the segment files
DlMerge ==
    /\ dl_pc = "fetching"
    /\ Len(temp_locations) = Len(dl_args.audio_track[1].urls)
    /\ LET merged == TempName(next_temp, "mp4")
           output == TempName(next_temp + 1, ContainerName[dl_args.audio_track[1].codec])
       IN  /\ merged_temp_location' = <<merged>>
           /\ output_location' = <<output>>
           /\ files' = files \cup {[path |-> merged,
                                    content |-> MergedContent(files, temp_locations)]}
    /\ next_temp' = next_temp + 2
    /\ dl_pc' = "merged"
    /\ UNCHANGED <<dl_args, temp_locations, dl_result, fetched, printed,
                   info_vars, parse_vars, resolution_vars, preview_vars,
                   login_vars>>

\* the remux and the return that follows it
DlRemux(outcome) ==
    /\ dl_pc = "merged"
    /\ LET merged == merged_temp_location[1]
           output == output_location[1]
       IN  IF outcome = "ok"
           THEN /\ files' = AfterRemux(files, merged, temp_locations, output)
                /\ dl_result' = <<[download_type |-> "TEMP_FILE_PATH",
                                   temp_file_path |-> output]>>
                /\ UNCHANGED printed
           ELSE /\ files' = AfterFailedRemux(files, temp_locations, output, outcome)
                /\ dl_result' = <<RemuxFailureResult(merged, output)>>
                /\ printed' = Append(printed,
                      "FFmpeg is not installed or working! Using fallback, may have errors")
    /\ dl_pc' = "done"
    /\ UNCHANGED <<dl_args, temp_locations, merged_temp_location, output_location,
                   next_temp, fetched, info_vars, parse_vars,
                   resolution_vars, preview_vars, login_vars>>

\* the caller has the result or the exception; the locals are gone, the
\* files stay
DlReturn ==
    /\ dl_pc \in {"done", "raised"}
    /\ dl_pc' = "idle"
    /\ dl_args' = NoArgs
    /\ temp_locations' = <<>>
    /\ merged_temp_location' = <<>>
    /\ output_location' = <<>>
    /\ dl_result' = <<>>
    /\ fetched' = <<>>
    /\ printed' = <<>>
    /\ UNCHANGED <<files, next_temp, info_vars, parse_vars, resolution_vars,
                   preview_vars, login_vars>>

NextDownload ==
    \/ \E args \in DownloadArgsSet : DlBegin(args)
    \/ \E ok \in BOOLEAN : DlFetch(ok)
    \/ DlMerge
    \/ \E outcome \in RemuxOutcomes : DlRemux(outcome)
    \/ DlReturn

SpecDownload == InitDownload /\ [][NextDownload]_vars

\* the interpreter keeps running: a step that can be taken is taken
SpecDownloadFair == SpecDownload /\ WF_vars(NextDownload)

----------------------------------------------------------------------------
(* get_track_info calls on one ModuleInterface that run side by side. A   *)
(* call r keeps its locals in resolutions[r]; self.session.default and    *)
(* the deployment are the fields of the one instance. A step is the code  *)
(* between two uses of self.session.                                      *)

\* entry to the session table: the session is selected and, when it is
\* available, written to self.session.default
RSelect(r, tier, tags, options) ==
    /\ resolutions[r].pc = "idle"
    /\ LET selected == SelectFormat(tier, tags, options, settings.prefer_ac4)
           s == SelectSession(selected, tags)
           ok == SessionAvailable(s, available_sessions)
       IN  /\ session_default' = IF ok THEN s ELSE session_default
           /\ resolutions' = [resolutions EXCEPT
                 ![r] = [pc |-> IF ok THEN "selected" ELSE "degraded",
                         session |-> s, codec_options |-> options,
                         requests |-> <<>>]]
    /\ UNCHANGED <<deployment, pc, locals, ref, parse_vars, download_vars,
                   preview_vars, login_vars>>

\* get_stream_url is sent to the default as it is when the call is made
RRequest(r) ==
    /\ resolutions[r].pc \in {"selected", "degraded"}
    /\ resolutions' = [resolutions EXCEPT
          ![r].pc = "requested",
          ![r].requests = Append(@, [session |-> session_default])]
    /\ UNCHANGED <<info_vars, parse_vars, download_vars, preview_vars, login_vars>>

\* the answer: an error ends the call, a codec that is not allowed leads to
\* the re-fetch
RRespond(r, resp) ==
    /\ resolutions[r].pc = "requested"
    /\ resolutions' = [resolutions EXCEPT
          ![r].pc = IF resp \in RequestErrors THEN "done"
                    ELSE IF NeedsFallback(DecodeEnvelope(resp, <<>>, <<>>).track_codec,
                                          resolutions[r].codec_options)
                         THEN "refetch" ELSE "done"]
    /\ UNCHANGED <<info_vars, parse_vars, download_vars, preview_vars, login_vars>>

\* the re-fetch at 'LOSSLESS' and its answer
RRefetch(r) ==
    /\ resolutions[r].pc = "refetch"
    /\ resolutions' = [resolutions EXCEPT
          ![r].pc = "done",
          ![r].requests = Append(@, [session |-> session_default])]
    /\ UNCHANGED <<info_vars, parse_vars, download_vars, preview_vars, login_vars>>

RReturn(r) ==
    /\ resolutions[r].pc = "done"
    /\ resolutions' = [resolutions EXCEPT ![r] = IdleResolution]
    /\ UNCHANGED <<info_vars, parse_vars, download_vars, preview_vars, login_vars>>

NextResolutions ==
    \/ \E r \in ResolutionIds, tier \in QualityEnum, tags \in SUBSET MediaTags,
          options \in CodecOptionsSet : RSelect(r, tier, tags, options)
    \/ \E r \in ResolutionIds : RRequest(r)
    \/ \E r \in ResolutionIds, resp \in RequestErrors \cup Envelopes(1) : RRespond(r, resp)
    \/ \E r \in ResolutionIds : RRefetch(r)
    \/ \E r \in ResolutionIds : RReturn(r)

SpecResolutions == Init /\ [][NextResolutions]_vars

----------------------------------------------------------------------------
(* get_preview_stream_url. A call p keeps its locals in previews[p]; the  *)
(* temporary directory files is shared. A name of create_temp_filename is *)
(* one that no file and no running call has; written keeps, for every     *)
(* running call, the paths it has written or removed.                     *)

\* num_media = min(10, max(0, len(urls) - 1))
PreviewMediaLimit == 10

MaxMedia == 12

\* previews are started while fewer than this many files are kept
MaxKeptFiles == 2

TrackIds == {"92265335", "1566"}

\* an MPD of one audio representation with n media segments
PreviewDocument(n) ==
    [periods |-> <<[adaptation_sets |-> <<[contentType |-> "audio",
        representations |-> <<[codecs |-> "mp4a.40.2", audioSamplingRate |-> <<44100>>,
            bandwidth |-> <<96000>>,
            template |-> [initialization |-> <<[lit |-> "init.mp4"]>>,
                          media |-> <<[lit |-> "seg-"], [var |-> "Number"], [lit |-> ".mp4"]>>,
                          startNumber |-> <<1>>,
                          timeline |-> << <<[t |-> <<0>>, d |-> 1000, r |-> <<n - 1>>]>> >>]]>>]>>]>>]

\* the MPDs a preview is built from: with n media segments, without
\* timeline, without period, with a video set
PreviewDocuments(max) ==
    {PreviewDocument(n) : n \in 1..max}
    \cup {[periods |-> <<>>]}
    \cup {[periods |-> <<[adaptation_sets |-> <<[contentType |-> c,
                representations |-> <<PlainRepresentation>>]>>]>>] :
             c \in {"audio", "video"}}

\* what get_stream_url(track_id, 'LOW') gives: an error, None, an envelope
\* with an MPD or with a JSON manifest
PreviewAnswers(max) ==
    {[kind |-> "error"], [kind |-> "none"]}
    \cup {[kind |-> "dash", xml |-> d] : d \in PreviewDocuments(max)}
    \cup {[kind |-> "json", urls |-> u] : u \in {<<>>, <<[file |-> 1]>>}}

NumMedia(urls) ==
    IF Len(urls) - 1 <= 0 THEN 0
    ELSE IF Len(urls) - 1 < PreviewMediaLimit THEN Len(urls) - 1 ELSE PreviewMediaLimit

\* os.path.join(tempfile.gettempdir(), f'orpheus_tidal_preview_{track_id}.m4a')
PreviewName(track_id) == [preview |-> track_id, ext |-> "m4a"]

\* the numbers of the temporary names in use
UsedIds(fs, w) ==
    {q.id : q \in {x \in {f.path : f \in fs} \cup {e.path : e \in w} : "id" \in DOMAIN x}}

\* create_temp_filename: a name nobody has
FreshId(fs, w) ==
    CHOOSE n \in 0..Cardinality(UsedIds(fs, w)) :
        n \notin UsedIds(fs, w) /\ \A m \in 0..(n - 1) : m \in UsedIds(fs, w)

Written(fs, path, content) ==
    Removed(fs, {path}) \cup {[path |-> path, content |-> content]}

PathSet(paths) == {paths[i] : i \in DOMAIN paths}

\* variant of PreviewCleanup that leaves the segment files
PreviewCleanupNone(fs, segment_paths) == fs

\* finally: silentremove of every segment path
PreviewCleanup(fs, segment_paths) == Removed(fs, PathSet(segment_paths))

\* os.path.exists(path) and os.path.getsize(path) > 0
NonEmptyFile(fs, path) == \E f \in fs : f.path = path /\ f.content # <<>>

Touch(w, p, paths) == w \cup {[path |-> q, op |-> p] : q \in paths}

\* entry up to the first download: the manifest is requested and decoded
PvBegin(p, track_id, answer, empty) ==
    /\ previews[p].pc = "idle"
    /\ Cardinality(files) < MaxKeptFiles
    /\ LET parsed == IF answer.kind = "dash" THEN parse_mpd(answer.xml)
                     ELSE [raises |-> FALSE, tracks |-> <<>>]
           urls == CASE answer.kind = "dash" /\ ~parsed.raises /\ parsed.tracks # <<>>
                          -> parsed.tracks[1].urls
                     [] answer.kind = "json" -> answer.urls
                     [] OTHER -> <<>>
           goes == CASE answer.kind = "dash" /\ NumMedia(urls) > 0 -> "fetching"
                     [] answer.kind = "json" /\ urls # <<>> -> "direct"
                     [] OTHER -> "done"
       IN  previews' = [previews EXCEPT
              ![p] = [pc |-> goes, track_id |-> <<track_id>>, urls |-> urls,
                      num_media |-> IF answer.kind = "dash" THEN NumMedia(urls) ELSE 0,
                      empty |-> empty, segment_paths |-> <<>>,
                      preview_path |-> <<>>, result |-> <<>>]]
    /\ UNCHANGED <<written, info_vars, parse_vars, download_vars, resolution_vars,
                   login_vars>>

\* one turn of the segment loop; a download that raises goes through the
\* finally and ends the call with None
PvFetch(p, ok) ==
    /\ previews[p].pc = "fetching"
    /\ Len(previews[p].segment_paths) < 1 + previews[p].num_media
    /\ LET url == previews[p].urls[Len(previews[p].segment_paths) + 1]
           seg_path == TempName(FreshId(files, written), "mp4")
       IN  IF ok
           THEN /\ files' = Written(files, seg_path,
                                    IF previews[p].empty THEN <<>> ELSE SegmentBytes(url))
                /\ written' = Touch(written, p, {seg_path})
                /\ previews' = [previews EXCEPT
                      ![p].segment_paths = Append(@, seg_path)]
           ELSE /\ files' = PreviewCleanup(files, previews[p].segment_paths)
                /\ written' = written
                /\ previews' = [previews EXCEPT ![p].pc = "done"]
    /\ UNCHANGED <<next_temp, download_locals, info_vars, parse_vars, resolution_vars,
                   login_vars>>

\* the segments are written to the preview file and removed; an empty
\* preview file is removed again
PvWrite(p) ==
    /\ previews[p].pc = "fetching"
    /\ Len(previews[p].segment_paths) = 1 + previews[p].num_media
    /\ LET preview_path == PreviewName(previews[p].track_id[1])
           merged == Written(files, preview_path,
                             MergedContent(files, previews[p].segment_paths))
           cleaned == PreviewCleanup(merged, previews[p].segment_paths)
       IN  /\ files' = IF NonEmptyFile(cleaned, preview_path) THEN cleaned
                       ELSE Removed(cleaned, {preview_path})
           /\ written' = Touch(written, p, {preview_path})
           /\ previews' = [previews EXCEPT
                 ![p].pc = "done",
                 ![p].preview_path = <<preview_path>>,
                 ![p].result = IF NonEmptyFile(cleaned, preview_path)
                               THEN <<preview_path>> ELSE <<>>]
    /\ UNCHANGED <<next_temp, download_locals, info_vars, parse_vars, resolution_vars,
                   login_vars>>

\* the JSON manifest: the first URL is downloaded as the preview
PvDirect(p, ok) ==
    /\ previews[p].pc = "direct"
    /\ LET preview_path == TempName(FreshId(files, written), "m4a")
       IN  IF ok /\ ~previews[p].empty
           THEN /\ files' = Written(files, preview_path, SegmentBytes(previews[p].urls[1]))
                /\ written' = Touch(written, p, {preview_path})
                /\ previews' = [previews EXCEPT
                      ![p].pc = "done",
                      ![p].preview_path = <<preview_path>>,
                      ![p].result = <<preview_path>>]
           ELSE /\ files' = files
                /\ written' = IF ok THEN Touch(written, p, {preview_path}) ELSE written
                /\ previews' = [previews EXCEPT
                      ![p].pc = "done",
                      ![p].preview_path = IF ok THEN <<preview_path>> ELSE <<>>]
    /\ UNCHANGED <<next_temp, download_locals, info_vars, parse_vars, resolution_vars,
                   login_vars>>

\* the caller has the path or None
PvReturn(p) ==
    /\ previews[p].pc = "done"
    /\ previews' = [previews EXCEPT ![p] = IdlePreview]
    /\ written' = {e \in written : e.op # p}
    /\ UNCHANGED <<info_vars, parse_vars, download_vars, resolution_vars,
                   login_vars>>

\* one call after the other, with manifests of up to MaxMedia segments
NextPreview ==
    \/ \E track_id \in TrackIds, answer \in PreviewAnswers(MaxMedia), empty \in BOOLEAN :
          PvBegin(1, track_id, answer, empty)
    \/ \E ok \in BOOLEAN : PvFetch(1, ok)
    \/ PvWrite(1)
    \/ \E ok \in BOOLEAN : PvDirect(1, ok)
    \/ PvReturn(1)

SpecPreview == InitDownload /\ [][NextPreview]_vars

\* calls side by side, with manifests of one media segment
NextPreviews ==
    \/ \E p \in PreviewIds, track_id \in TrackIds, answer \in PreviewAnswers(1),
          empty \in BOOLEAN : PvBegin(p, track_id, answer, empty)
    \/ \E p \in PreviewIds, ok \in BOOLEAN : PvFetch(p, ok)
    \/ \E p \in PreviewIds : PvWrite(p)
    \/ \E p \in PreviewIds, ok \in BOOLEAN : PvDirect(p, ok)
    \/ \E p \in PreviewIds : PvReturn(p)

SpecPreviews == InitDownload /\ [][NextPreviews]_vars

----------------------------------------------------------------------------
(* The login loop of __init__: 'while True' around the interactive login  *)
(* and the for loop over available_sessions.                              *)

MaxRounds == 3

\* self.available_sessions in list order
AvailableList ==
    IF available_sessions = {"TV"} THEN <<"TV">>
    ELSE <<"TV", "MOBILE_DEFAULT", "MOBILE_ATMOS">>

\* what get_subscription answers
Subscriptions == {"HIFI", "FREE"}

\* what the 'sessions' entry of the temporary settings holds at the start:
\* nothing, or the storage of some session types
StoredAtStart ==
    {<<>>} \cup {<<[t \in S |-> Storage(t, 0)]>> : S \in SUBSET SessionTypes}

\* variant of check_subscription that accepts every subscription
check_subscription_unchecked(disabled, subscription) == TRUE

check_subscription(disabled, subscription) ==
    ~(~disabled /\ subscription \notin {"HIFI", "PREMIUM", "PREMIUM_PLUS"})

\* d[t] = v of a dict
Put(d, t, v) == [x \in DOMAIN d \cup {t} |-> IF x = t THEN v ELSE d[x]]

\* __init__ up to 'while True'
InitLogin ==
    /\ available_sessions \in {{"TV"}, {"TV", "MOBILE_DEFAULT", "MOBILE_ATMOS"}}
    /\ settings = [prefer_ac4 |-> FALSE, fix_mqa |-> TRUE]
    /\ session_default = InitialDefault
    /\ pc = "idle"
    /\ NoCall
    /\ ref = {}
    /\ NoParse
    /\ NoDownload
    /\ NoResolutions
    /\ NoPreviews
    /\ login_pc = "top"
    /\ disable_subscription_check \in BOOLEAN
    /\ stored_sessions \in StoredAtStart
    /\ saved_sessions = IF stored_sessions = <<>> THEN EmptyMap ELSE stored_sessions[1]
    /\ sessions = EmptyMap
    /\ login_session = <<>>
    /\ login_index = 0
    /\ rounds = 0

\* the head of an iteration: without saved sessions the user logs in with
\* the chosen session type, the session is saved and becomes login_session
LoginTop(choice, auth_ok) ==
    /\ login_pc \in {"top", "relogin"}
    /\ rounds' = rounds + 1
    /\ IF DOMAIN saved_sessions = {}
       THEN LET login_session_type == IF Len(AvailableList) = 1 THEN AvailableList[1]
                                      ELSE choice
                storage == Storage(login_session_type, rounds + 1)
            IN  IF auth_ok
                THEN /\ saved_sessions' = Put(saved_sessions, login_session_type, storage)
                     /\ stored_sessions' = <<saved_sessions'>>
                     /\ login_session' = <<[type |-> login_session_type,
                                           storage |-> storage]>>
                     /\ login_index' = 1
                     /\ login_pc' = "for"
                ELSE /\ login_pc' = "raised"
                     /\ UNCHANGED <<saved_sessions, stored_sessions, login_session,
                                    login_index>>
       ELSE /\ login_session' = <<>>
            /\ login_index' = 1
            /\ login_pc' = "for"
            /\ UNCHANGED <<saved_sessions, stored_sessions>>
    /\ UNCHANGED <<sessions, disable_subscription_check, info_vars, parse_vars,
                   download_vars, resolution_vars, preview_vars>>

\* the for loop up to the subscription check: the session is initialised,
\* loaded from saved_sessions or authorised and saved, and refreshed and
\* saved when it is not valid
LoginStep(auth_ok, valid) ==
    /\ login_pc = "for"
    /\ LET t == AvailableList[login_index]
           loaded == IF t \in DOMAIN saved_sessions THEN saved_sessions[t]
                     ELSE Storage(t, rounds)
           storage == IF valid THEN loaded ELSE [loaded EXCEPT !.refreshed = TRUE]
       IN  IF t \notin DOMAIN saved_sessions /\ ~auth_ok
           THEN /\ login_pc' = "raised"
                /\ UNCHANGED <<saved_sessions, stored_sessions, sessions>>
           ELSE /\ saved_sessions' =
                      IF t \in DOMAIN saved_sessions /\ valid THEN saved_sessions
                      ELSE Put(saved_sessions, t, storage)
                /\ stored_sessions' =
                      IF t \in DOMAIN saved_sessions /\ valid THEN stored_sessions
                      ELSE <<saved_sessions'>>
                /\ sessions' = Put(sessions, t, [type |-> t, storage |-> storage,
                                                 subscription |-> <<>>, round |-> rounds])
                /\ login_pc' = "check"
    /\ UNCHANGED <<login_session, login_index, rounds, disable_subscription_check,
                   info_vars, parse_vars, download_vars, resolution_vars, preview_vars>>

\* the subscription check and the rest of the loop body: a failed check
\* ends the program or empties saved_sessions and starts the loop again
LoginCheck(subscription, confirm) ==
    /\ login_pc = "check"
    /\ LET t == AvailableList[login_index]
       IN  /\ sessions' = [sessions EXCEPT ![t].subscription = <<subscription>>]
           /\ IF check_subscription(disable_subscription_check, subscription)
              THEN /\ login_session' = IF login_session = <<>>
                                       THEN <<[type |-> t, storage |-> sessions[t].storage]>>
                                       ELSE login_session
                   /\ IF login_index < Len(AvailableList)
                      THEN /\ login_index' = login_index + 1
                           /\ login_pc' = "for"
                      ELSE /\ login_index' = login_index
                           /\ login_pc' = IF DOMAIN saved_sessions # {} THEN "done"
                                          ELSE "relogin"
                   /\ UNCHANGED saved_sessions
              ELSE IF confirm = "N"
                   THEN /\ login_pc' = "exited"
                        /\ UNCHANGED <<saved_sessions, login_session, login_index>>
                   ELSE /\ rounds < MaxRounds
                        /\ saved_sessions' = EmptyMap
                        /\ login_pc' = "relogin"
                        /\ UNCHANGED <<login_session, login_index>>
    /\ UNCHANGED <<stored_sessions, rounds, disable_subscription_check, info_vars,
                   parse_vars, download_vars, resolution_vars, preview_vars>>

NextLogin ==
    \/ \E choice \in {"TV", "MOBILE_DEFAULT"}, auth_ok \in BOOLEAN : LoginTop(choice, auth_ok)
    \/ \E auth_ok \in BOOLEAN, valid \in BOOLEAN : LoginStep(auth_ok, valid)
    \/ \E subscription \in Subscriptions, confirm \in {"Y", "N"} :
          LoginCheck(subscription, confirm)

SpecLogin == InitLogin /\ [][NextLogin]_vars

----------------------------------------------------------------------------
(* Properties *)

\* a get_track_info call has sent its first manifest request
Requested == pc \in {"requested", "refetch", "done", "raised"}

\* the tier table as the specification states it
TierString(tier) ==
    CASE tier \in {"MINIMUM", "LOW"} -> "LOW"
      [] tier \in {"MEDIUM", "HIGH"} -> "HIGH"
      [] tier = "LOSSLESS" -> "LOSSLESS"
      [] tier = "HIFI" -> "HI_RES"

SameInputs(r) ==
    /\ quality_tier = r.quality_tier
    /\ media_tags = r.media_tags
    /\ codec_options = r.codec_options

\* C1: in one deployment, two get_track_info calls with the same tier, tags
\* and codec options send the manifest request to the same session with the
\* same quality string and select the same format, whatever ran in between.
C1_SameInputsSameTriple ==
    \A r \in ref :
        (Requested /\ SameInputs(r)) =>
            /\ requests[1].session = r.session
            /\ requests[1].quality = r.quality
            /\ format = r.format

\* a resolution is repeated with a format whose session is unavailable, so
\* that the request goes to the default earlier operations left
C1_Witness ==
    \E r \in ref :
        /\ pc = "requested"
        /\ SameInputs(r)
        /\ session \notin available_sessions
        /\ "DOLBY_ATMOS" \in media_tags

\* the Atmos variant the prefer_ac4 setting asks for
AtmosVariant == IF settings.prefer_ac4 THEN "ac4" ELSE "ac3"

\* C2 as stated: with spatial codecs allowed and the Atmos tag present the
\* format is the Atmos variant of prefer_ac4 for every other tag, and 360RA
\* is selected only without the Atmos tag.
C2_AtmosFirst ==
    Requested =>
        /\ (codec_options.spatial_codecs /\ "DOLBY_ATMOS" \in media_tags)
              => format = AtmosVariant
        /\ format = "360ra" => "DOLBY_ATMOS" \notin media_tags

\* C2 amended: with spatial codecs allowed, the Atmos tag present and the
\* 360RA tag absent the format is ac3 (prefer_ac4 false) or, when the
\* MOBILE_ATMOS session is available, ac4 (prefer_ac4 true); the 360RA tag
\* comes first: with it and the MOBILE_DEFAULT session the format is 360ra,
\* with or without the Atmos tag.
C2_AtmosAfter360 ==
    (Requested /\ codec_options.spatial_codecs) =>
        /\ ("DOLBY_ATMOS" \in media_tags /\ "SONY_360RA" \notin media_tags
            /\ FormatSession[AtmosVariant] \in available_sessions)
              => format = AtmosVariant
        /\ ("SONY_360RA" \in media_tags /\ "MOBILE_DEFAULT" \in available_sessions)
              => format = "360ra"

\* a track with both spatial tags is resolved to 360ra
C2_Witness ==
    /\ pc = "requested"
    /\ codec_options.spatial_codecs
    /\ {"DOLBY_ATMOS", "SONY_360RA"} \subseteq media_tags
    /\ format = "360ra"

\* C3 as stated: with the Atmos tag and spatial codecs allowed the request
\* is never made with the direct selection, for every set of sessions.
C3_NeverDirect ==
    (Requested /\ codec_options.spatial_codecs /\ "DOLBY_ATMOS" \in media_tags)
        => format # "none"

\* C3 amended: with the Atmos tag and spatial codecs allowed the request is
\* never made with the direct selection when the session of the selected
\* spatial format is among the available sessions.
C3_NeverDirectWhenAvailable ==
    (Requested /\ codec_options.spatial_codecs /\ "DOLBY_ATMOS" \in media_tags
     /\ session \in available_sessions)
        => format \in {"ac3", "ac4", "360ra"}

\* an Atmos track is requested in its ac4 variant from the mobile session
C3_Witness ==
    /\ pc = "requested"
    /\ codec_options.spatial_codecs
    /\ "DOLBY_ATMOS" \in media_tags
    /\ format = "ac4"
    /\ requests[1].session = "MOBILE_ATMOS"

\* C4 as stated: tier HIFI with the hi-res tag and spatial codecs disallowed
\* gives flac_hires requested as HI_RES_LOSSLESS; below HIFI never flac_hires.
C4_HiresAtHifi ==
    Requested =>
        /\ (quality_tier = "HIFI" /\ "HIRES_LOSSLESS" \in media_tags
            /\ ~codec_options.spatial_codecs)
              => (format = "flac_hires" /\ requests[1].quality = "HI_RES_LOSSLESS")
        /\ quality_tier # "HIFI" => format # "flac_hires"

\* C4 amended: the same, provided the MOBILE_DEFAULT session is available.
C4_HiresAtHifiWithMobile ==
    Requested =>
        /\ (quality_tier = "HIFI" /\ "HIRES_LOSSLESS" \in media_tags
            /\ ~codec_options.spatial_codecs
            /\ "MOBILE_DEFAULT" \in available_sessions)
              => (format = "flac_hires" /\ requests[1].quality = "HI_RES_LOSSLESS")
        /\ quality_tier # "HIFI" => format # "flac_hires"

\* scenario A is resolved, and a lower tier with the hi-res tag exists too
C4_Witness ==
    /\ pc = "requested"
    /\ quality_tier = "HIFI"
    /\ media_tags = {"HIRES_LOSSLESS"}
    /\ ~codec_options.spatial_codecs
    /\ format = "flac_hires"

\* C5: the first request asks for HI_RES_LOSSLESS exactly when the format is
\* flac_hires and for the tier's table value otherwise; tier LOSSLESS with no
\* tags asks for LOSSLESS with the direct format.
C5_QualityString ==
    Requested =>
        /\ requests[1].quality = "HI_RES_LOSSLESS" <=> format = "flac_hires"
        /\ format # "flac_hires" => requests[1].quality = TierString(quality_tier)
        /\ (quality_tier = "LOSSLESS" /\ media_tags = {})
              => (format = "none" /\ requests[1].quality = "LOSSLESS")

\* tier HIFI with a degraded hi-res format asks for the table value HI_RES
C5_Witness ==
    /\ pc = "requested"
    /\ quality_tier = "HIFI"
    /\ "HIRES_LOSSLESS" \in media_tags
    /\ format = "none"
    /\ requests[1].quality = "HI_RES"

\* C6: when the session of the selected format is not available the format
\* is None and the request goes to the TV session with the tier's table value.
C6_DegradeToBaseline ==
    (Requested /\ session \notin available_sessions) =>
        /\ format = "none"
        /\ requests[1].session = "TV"
        /\ requests[1].quality = TierString(quality_tier)

\* a spatial format was selected and its session is missing
C6_Witness ==
    /\ pc = "requested"
    /\ session \notin available_sessions
    /\ codec_options.spatial_codecs
    /\ "SONY_360RA" \in media_tags
    /\ format = "none"

\* C7 as stated: two resolutions that end with the same format request the
\* manifest from the same session with the same quality string.
C7_FormatFixesRequest ==
    \A r \in ref :
        (Requested /\ format = r.format) =>
            /\ requests[1].session = r.session
            /\ requests[1].quality = r.quality

\* C7 amended: two resolutions that end with the same format other than the
\* direct one request the manifest from the same session; with flac_hires
\* they also ask for the same quality string (HI_RES_LOSSLESS), with any
\* other format the quality string is the same when the tier is the same,
\* and two direct resolutions use the same session when their tracks agree
\* on the Atmos tag.
C7_FormatFixesSession ==
    \A r \in ref :
        (Requested /\ format = r.format) =>
            /\ format # "none" => requests[1].session = r.session
            /\ format = "flac_hires" => requests[1].quality = r.quality
            /\ quality_tier = r.quality_tier => requests[1].quality = r.quality
            /\ (format = "none"
                /\ ("DOLBY_ATMOS" \in media_tags <=> "DOLBY_ATMOS" \in r.media_tags))
                  => requests[1].session = r.session

\* the same spatial format is resolved for two tiers with different strings
C7_Witness ==
    \E r \in ref :
        /\ pc = "requested"
        /\ format = r.format
        /\ format = "ac4"
        /\ quality_tier # r.quality_tier
        /\ requests[1].quality # r.quality
        /\ requests[1].session = r.session

\* the codec of the first manifest asks for the re-fetch
FirstCodecDisallowed ==
    /\ decoded # <<>>
    /\ codec_data[decoded[1].codec].proprietary
    /\ ~codec_data[decoded[1].codec].spatial
    /\ ~codec_options.proprietary_codecs

\* C8: a second manifest request is made exactly when the codec of the first
\* manifest is proprietary, not spatial, and proprietary codecs are
\* disallowed; it asks for LOSSLESS from the session of the first request.
C8_FallbackRequest ==
    /\ Len(requests) = 2 <=> FirstCodecDisallowed
    /\ Len(requests) = 2 =>
          /\ requests[2].quality = "LOSSLESS"
          /\ requests[2].session = requests[1].session

\* the re-fetch is made for a tier below LOSSLESS
C8_Witness ==
    /\ pc = "done"
    /\ quality_tier = "LOW"
    /\ requests = <<[session |-> "TV", quality |-> "LOW"],
                    [session |-> "TV", quality |-> "LOSSLESS"]>>

\* what a decode of the last answer alone gives
FreshDecode == DecodeEnvelope(stream_data[1], <<>>, <<>>)

\* C9: after the re-fetch the codec, the download arguments, the bitrate and
\* the sample rate of the result are those of the second manifest alone.
C9_ResultFromSecondManifest ==
    (pc = "done" /\ Len(requests) = 2) =>
        /\ track_info[1].codec = FreshDecode.track_codec
        /\ track_info[1].download_extra_kwargs =
              DownloadArgs(stream_data, FreshDecode.manifest,
                           FreshDecode.audio_track, FreshDecode.track_codec)
        /\ track_info[1].bitrate =
              Bitrate(stream_data, FreshDecode.audio_track, FreshDecode.track_codec)
        /\ track_info[1].sample_rate =
              SampleRate(stream_data, FreshDecode.audio_track,
                         FreshDecode.track_codec, mqa_file)

\* C10: a call requests the manifest at most twice, the second time only as
\* the proprietary-codec re-fetch, and decodes each answer at most once.
C10_AtMostTwoRequests ==
    /\ Len(requests) <= 2
    /\ Len(requests) = 2 =>
          (pc \in {"refetch", "done", "raised"} /\ FirstCodecDisallowed)
    /\ Len(decoded) <= Len(requests)
    /\ \A i, j \in DOMAIN decoded :
          decoded[i].serial = decoded[j].serial => i = j

\* both answers of a call with a re-fetch have been decoded
C10_Witness ==
    /\ pc = "done"
    /\ Len(requests) = 2
    /\ Len(decoded) = 2
    /\ decoded[1].serial = 1
    /\ decoded[2].serial = 2

\* C11: a manifest request of get_track_info that is rejected as region
\* locked does not abort the call; the TrackInfo carries the region
\* annotation and no download arguments.
C11_RegionLockIsAnnotated ==
    /\ raised # <<"Asset is not ready for playback">>
    /\ (pc = "done" /\ error = <<"is not available in your region">>) =>
          /\ track_info[1].error = <<"is not available in your region">>
          /\ track_info[1].download_extra_kwargs = <<>>

\* the representations of a single-period document, in document order
DocumentRepresentations ==
    IF mpd_xml[1].periods = <<>> THEN <<>>
    ELSE ConcatAll([a \in DOMAIN mpd_xml[1].periods[1].adaptation_sets |->
            mpd_xml[1].periods[1].adaptation_sets[a].representations])

\* every adaptation set of the document is an audio one
AudioOnly ==
    \A p \in DOMAIN mpd_xml[1].periods :
        \A a \in DOMAIN mpd_xml[1].periods[p].adaptation_sets :
            mpd_xml[1].periods[p].adaptation_sets[a].contentType = "audio"

\* the number of segments a timeline stands for: r + 1 per entry
RECURSIVE ExpandedSegments(_)
ExpandedSegments(entries) ==
    IF entries = <<>> THEN 0
    ELSE (IF Head(entries).r = <<>> THEN 0 ELSE Head(entries).r[1]) + 1
         + ExpandedSegments(Tail(entries))

TimelineOf(representation) ==
    IF representation.template.timeline = <<>> THEN <<>>
    ELSE representation.template.timeline[1]

\* C12: for an audio manifest parse_mpd returns one rendition per
\* representation without an error; its URL list starts with the
\* initialization URL and has 1 + the sum of (r + 1) over the timeline
\* entries elements, one element when there is no SegmentTimeline.
C12_UrlCount ==
    (mpd_out # <<>> /\ AudioOnly) =>
        /\ ~mpd_out[1].raises
        /\ Len(mpd_out[1].tracks) = Len(DocumentRepresentations)
        /\ \A i \in DOMAIN mpd_out[1].tracks :
              LET urls == mpd_out[1].tracks[i].urls
                  representation == DocumentRepresentations[i]
              IN  /\ urls[1] = representation.template.initialization
                  /\ Len(urls) = 1 + ExpandedSegments(TimelineOf(representation))
                  /\ representation.template.timeline = <<>> => Len(urls) = 1

\* a timeline whose second entry has an explicit start time and a repeat
C12_Witness ==
    /\ mpd_out # <<>>
    /\ Len(mpd_out[1].tracks) = 1
    /\ TimelineOf(DocumentRepresentations[1]) =
          <<[t |-> <<>>, d |-> 1000, r |-> <<>>], [t |-> <<7000>>, d |-> 1000, r |-> <<2>>]>>
    /\ Len(mpd_out[1].tracks[1].urls) = 5

\* the start number of a representation, 1 when absent
StartNumberOf(representation) ==
    IF representation.template.startNumber = <<>> THEN 1
    ELSE representation.template.startNumber[1]

ScenarioD ==
    /\ Len(DocumentRepresentations) = 1
    /\ DocumentRepresentations[1].template.startNumber = <<1>>
    /\ TimelineOf(DocumentRepresentations[1]) = <<[t |-> <<0>>, d |-> 1000, r |-> <<2>>]>>

\* C13: after the initialization URL the URLs of a rendition are the media
\* template with $Number$ replaced by startNumber, startNumber + 1, ... in
\* list order, startNumber being 1 when absent; scenario D gives the
\* indices 1, 2, 3 and 4 URLs.
C13_ConsecutiveNumbers ==
    (mpd_out # <<>> /\ AudioOnly) =>
        /\ \A i \in DOMAIN mpd_out[1].tracks :
              LET urls == mpd_out[1].tracks[i].urls
                  representation == DocumentRepresentations[i]
              IN  \A k \in 2..Len(urls) :
                     urls[k] = ReplaceNumber(representation.template.media,
                                             StartNumberOf(representation) + k - 2)
        /\ ScenarioD =>
              mpd_out[1].tracks[1].urls =
                 <<<<[lit |-> "init.mp4"]>>,
                   <<[lit |-> "seg-"], [num |-> 1], [lit |-> ".mp4"]>>,
                   <<[lit |-> "seg-"], [num |-> 2], [lit |-> ".mp4"]>>,
                   <<[lit |-> "seg-"], [num |-> 3], [lit |-> ".mp4"]>> >>

\* a start number other than 1 with several segments has been parsed
C13_Witness ==
    /\ mpd_out # <<>>
    /\ Len(mpd_out[1].tracks) = 1
    /\ DocumentRepresentations[1].template.startNumber = <<5>>
    /\ Len(mpd_out[1].tracks[1].urls) = 4
    /\ mpd_out[1].tracks[1].urls[4] = <<[lit |-> "seg-"], [num |-> 7], [lit |-> ".mp4"]>>

\* the adaptation sets of the document with the given property of their
\* content type that hold at least min representations
SetsWith(audio, min) ==
    {<<p, a>> \in (DOMAIN mpd_xml[1].periods) \X (1..MaxSets + 1) :
        /\ a \in DOMAIN mpd_xml[1].periods[p].adaptation_sets
        /\ (mpd_xml[1].periods[p].adaptation_sets[a].contentType = "audio") = audio
        /\ Len(mpd_xml[1].periods[p].adaptation_sets[a].representations) >= min}

\* C14: parse_mpd fails for a manifest without an audio adaptation set that
\* has a representation (no Period, no AdaptationSet, no audio
\* representation); it returns no empty rendition list.
C14_NoAudioIsAnError ==
    (mpd_out # <<>> /\ SetsWith(TRUE, 1) = {}) => mpd_out[1].raises

\* C15 as stated: parse_mpd raises and returns no renditions for every
\* manifest with an adaptation set that is not audio, with or without a
\* Representation in it.
C15_NonAudioRejected ==
    (mpd_out # <<>> /\ SetsWith(FALSE, 0) # {}) =>
        (mpd_out[1].raises /\ mpd_out[1].tracks = <<>>)

\* C15 amended: parse_mpd raises and returns no renditions for every
\* manifest with an adaptation set that is not audio and contains a
\* Representation, wherever the set stands; a set that is not audio and has
\* no Representation is passed over.
C15_NonAudioRepresentationRejected ==
    /\ (mpd_out # <<>> /\ SetsWith(FALSE, 1) # {}) =>
          (mpd_out[1].raises /\ mpd_out[1].tracks = <<>>)
    /\ (mpd_out # <<>> /\ SetsWith(FALSE, 1) = {}) => ~mpd_out[1].raises

\* a video set with a representation after an audio set with one is rejected
C15_Witness ==
    /\ mpd_out # <<>>
    /\ <<1, 1>> \in SetsWith(TRUE, 1)
    /\ <<1, 2>> \in SetsWith(FALSE, 1)
    /\ mpd_out[1].raises

\* C16: get_track_info fetches a probe prefix (mqa_file is set) only when
\* the resolved codec is MQA, fix_mqa is enabled and the manifest of the
\* result is a direct single-URL one, not a segmented one.
C16_ProbeOnlyForDirectMqa ==
    mqa_file # <<>> =>
        /\ track_codec = "MQA"
        /\ settings.fix_mqa
        /\ stream_data # <<>>
        /\ stream_data[1].manifestMimeType # "application/dash+xml"
        /\ mqa_file[1].url = JsonManifest(stream_data[1]).urls[1]

\* a call has finished with a probe of its direct MQA stream
C16_Witness ==
    /\ pc = "done"
    /\ mqa_file # <<>>
    /\ track_codec = "MQA"
    /\ stream_data[1].manifestMimeType = "application/vnd.tidal.bts"

\* C17: for a direct JSON manifest get_track_info hands on the first URL
\* of that manifest as file_url, with the codec of its codecs string (AAC
\* for mp4a).
C17_DirectManifestGivesFileUrl ==
    (/\ pc = "done"
     /\ stream_data # <<>>
     /\ stream_data[1].manifestMimeType = "application/vnd.tidal.bts") =>
        track_info[1].download_extra_kwargs =
           <<[file_url |-> JsonManifest(stream_data[1]).urls[1],
              codec |-> IF stream_data[1].codecs = "mp4a.40.2" THEN "AAC"
                        ELSE track_codec]>>

\* the URLs of the rendition of the running call
CallUrls == dl_args.audio_track[1].urls

\* C18: a call with a segmented rendition fetches the URLs of its list once
\* each and in list order, and the merged file holds the segments in that
\* order, the initialization segment first, none added, dropped or repeated.
C18_FetchedAndMergedInOrder ==
    /\ dl_pc = "fetching" =>
          /\ Len(fetched) <= Len(CallUrls)
          /\ fetched = SubSeq(CallUrls, 1, Len(fetched))
    /\ dl_pc = "merged" =>
          /\ fetched = CallUrls
          /\ \E f \in files :
                /\ f.path = merged_temp_location[1]
                /\ f.content = [i \in DOMAIN CallUrls |-> [bytes_of |-> CallUrls[i]]]
          /\ Cardinality({f \in files : f.path = merged_temp_location[1]}) = 1

\* three segments, two of them from the same URL, have been merged
C18_Witness ==
    /\ dl_pc = "merged"
    /\ Len(CallUrls) = 3
    /\ CallUrls[1] # CallUrls[2]
    /\ CallUrls[2] = CallUrls[3]

\* the call has come back from a remux that worked
RemuxSucceeded ==
    /\ dl_pc = "done"
    /\ dl_args.audio_track # <<>>
    /\ printed = <<>>

\* the paths this call has named
CallPaths ==
    {temp_locations[i] : i \in DOMAIN temp_locations}
        \cup {merged_temp_location[i] : i \in DOMAIN merged_temp_location}
        \cup {output_location[i] : i \in DOMAIN output_location}

\* C19: after a remux that succeeded no segment file and no merged file of
\* the call exists; of the files of the call only the remuxed output is
\* there, and its path is the one returned.
C19_OnlyOutputRemains ==
    RemuxSucceeded =>
        /\ dl_result = <<[download_type |-> "TEMP_FILE_PATH",
                          temp_file_path |-> output_location[1]]>>
        /\ {f.path : f \in {g \in files : g.path \in CallPaths}} = {output_location[1]}

\* a call with several segments has come back from a successful remux
C19_Witness ==
    /\ RemuxSucceeded
    /\ Len(temp_locations) = 3
    /\ \E f \in files : f.path = output_location[1]

\* the call has come back from a remux that could not run or failed
RemuxFailed ==
    /\ dl_pc = "done"
    /\ dl_args.audio_track # <<>>
    /\ printed # <<>>

\* C20: a remux that cannot run or fails does not make get_track_download
\* raise: after the merge the call never ends raised, a failure prints the
\* warning and returns the path of the merged file, which still exists.
C20_RemuxFailureFallsBack ==
    /\ (dl_pc = "raised") => merged_temp_location = <<>>
    /\ (dl_pc = "done" /\ dl_args.audio_track # <<>>) =>
          \/ RemuxSucceeded /\ \E f \in files : f.path = output_location[1]
          \/ /\ RemuxFailed
             /\ Len(printed) = 1
             /\ dl_result = <<[download_type |-> "TEMP_FILE_PATH",
                               temp_file_path |-> merged_temp_location[1]]>>
             /\ \E f \in files : f.path = merged_temp_location[1]

\* a failed remux that left part of an output file behind
C20_Witness ==
    /\ RemuxFailed
    /\ \E f \in files : f.path = output_location[1] /\ f.content = <<>>
    /\ dl_result[1].temp_file_path = merged_temp_location[1]

\* the segment files of the call that exist
SegmentFilesLeft ==
    {f.path : f \in {g \in files : g.path \in {temp_locations[i] : i \in DOMAIN temp_locations}}}

\* C21: when the remux could not run, get_track_download deletes no segment
\* file: on return every downloaded segment file still exists.
C21_SegmentsKeptOnRemuxFailure ==
    RemuxFailed =>
        /\ Len(temp_locations) = Len(CallUrls)
        /\ \A i \in DOMAIN temp_locations :
              \E f \in files :
                 /\ f.path = temp_locations[i]
                 /\ f.content = SegmentBytes(CallUrls[i])

\* a call of three segments has come back from a remux that did not run
C21_Witness ==
    /\ RemuxFailed
    /\ Len(temp_locations) = 3
    /\ Cardinality(SegmentFilesLeft) = 3
    /\ ~\E f \in files : f.path = output_location[1]

\* C22: when the call has returned no segment file of it remains, after a
\* successful and after a failed remux alike, and the merged file is
\* removed exactly when the remux succeeded.
C22_SegmentsCleanedInAllCases ==
    (dl_pc = "done" /\ dl_args.audio_track # <<>>) =>
        /\ SegmentFilesLeft = {}
        /\ RemuxSucceeded <=> ~\E f \in files : f.path = merged_temp_location[1]

\* a segment file with the n-th temporary name exists
SegmentFileExists(n) == \E f \in files : f.path = TempName(n, "mp4")

\* the call has failed in the segment loop after storing the n-th name
FailedAfterStoring(n) ==
    /\ dl_pc = "raised"
    /\ \E i \in DOMAIN temp_locations : temp_locations[i] = TempName(n, "mp4")

\* C23: when the fetch of a segment raises after earlier segments were
\* stored, the files of the segments stored so far are eventually deleted.
C23_PartialFilesEventuallyDeleted ==
    \A n \in 0..MaxTempFiles : FailedAfterStoring(n) ~> ~SegmentFileExists(n)

\* C26: with proprietary codecs disallowed the codec of the TrackInfo is
\* never a proprietary codec that is not spatial, whatever the backend
\* answers to the first request and to the re-fetch.
C26_NoProprietaryCodecReturned ==
    (pc = "done" /\ ~codec_options.proprietary_codecs) =>
        ~(/\ codec_data[track_info[1].codec].proprietary
          /\ ~codec_data[track_info[1].codec].spatial)

CreditedArtistCall ==
    \E outcome \in ArtistOutcomes : GetArtistInfo(TRUE, outcome)

\* C28: a get_artist_info call with get_credited_albums that starts with the
\* TV default ends, on every path, with the TV default.
C28_DefaultRestored ==
    [][(CreditedArtistCall /\ session_default = "TV") => session_default' = "TV"]_vars

\* C24: of get_track_info calls that run side by side each sends its
\* manifest request and its re-fetch to the session it has selected itself
\* and written to the default, under every interleaving.
C24_RequestsGoToOwnSession ==
    \A r \in ResolutionIds :
        resolutions[r].pc \in {"requested", "refetch", "done"} =>
            \A i \in DOMAIN resolutions[r].requests :
                resolutions[r].requests[i].session \in
                    {resolutions[r].session} \cup
                    (IF SessionAvailable(resolutions[r].session, available_sessions)
                     THEN {} ELSE SessionTypes)

\* C25: calls that run side by side never share a temporary file: no path
\* is written or removed by two calls that are both running.
C25_NoSharedTemporaryFile ==
    \A e1 \in written, e2 \in written : e1.path = e2.path => e1.op = e2.op

\* C29: get_preview_stream_url never ends with an error; it downloads the
\* initialization segment and at most 10 media segments; when it has ended,
\* also after the download of a segment failed, no segment file it
\* downloaded exists, its result is None or the path of a file that is not
\* empty, and the result of a failed attempt is None.
C29_PreviewPathOrNone ==
    LET pv == previews[1]
    IN  /\ pv.pc \in {"idle", "fetching", "direct", "done"}
        /\ Len(pv.segment_paths) <= 1 + 10
        /\ Len(pv.segment_paths) <= Len(pv.urls)
        /\ pv.pc = "done" =>
              /\ pv.result = <<>> \/ NonEmptyFile(files, pv.result[1])
              /\ \A i \in DOMAIN pv.segment_paths :
                    ~\E f \in files : f.path = pv.segment_paths[i]
              /\ (pv.num_media > 0 /\ Len(pv.segment_paths) < 1 + pv.num_media) =>
                    pv.result = <<>>

\* of a manifest of 12 media segments the third download has failed
C29_Witness ==
    /\ previews[1].pc = "done"
    /\ Len(previews[1].urls) = 13
    /\ previews[1].num_media = 10
    /\ Len(previews[1].segment_paths) = 2
    /\ previews[1].result = <<>>

\* C30: the login loop ends only when every available session type has a
\* session of the last iteration whose subscription passed the check and
\* whose storage is in the 'sessions' entry of the temporary settings; after
\* a failed check that the user did not decline the saved sessions are
\* empty and the next iteration starts with a login made in that iteration.
C30_LoginEndsChecked ==
    /\ login_pc = "done" =>
          /\ stored_sessions # <<>>
          /\ \A t \in available_sessions :
                /\ t \in DOMAIN sessions
                /\ sessions[t].round = rounds
                /\ sessions[t].subscription # <<>>
                /\ \/ disable_subscription_check
                   \/ sessions[t].subscription[1] \in {"HIFI", "PREMIUM", "PREMIUM_PLUS"}
                /\ t \in DOMAIN stored_sessions[1]
                /\ stored_sessions[1][t] = sessions[t].storage
    /\ login_pc = "relogin" => DOMAIN saved_sessions = {}
    /\ (login_pc \in {"for", "check", "done"} /\ rounds > 1) =>
          /\ login_session # <<>>
          /\ login_session[1].storage.round = rounds

\* the loop has ended in its second iteration with all three sessions
C30_Witness ==
    /\ login_pc = "done"
    /\ rounds = 2
    /\ available_sessions = {"TV", "MOBILE_DEFAULT", "MOBILE_ATMOS"}
    /\ ~disable_subscription_check
    /\ sessions["MOBILE_ATMOS"].storage.round = 2

====
